---- MODULE Spec2Model ----
(***************************************************************************)
(* A model of dedupe.py: the consolidation engine that replaces duplicate  *)
(* files of a mergerfs pool by hardlinks to a master copy, with its SQLite *)
(* state store, its recovery step and its main processing loop.            *)
(*                                                                         *)
(* Paths are Python strings, modelled as sequences of one-character        *)
(* strings, so that str.startswith, Path.parent, Path.relative_to and      *)
(* os.path.join are computed on the characters as the code computes them.  *)
(***************************************************************************)
EXTENDS Naturals, Integers, Sequences, FiniteSets, TLC

(***************************************************************************)
(* Bounds of the model.                                                    *)
(***************************************************************************)
\* number of runs of the script in one behaviour
MaxRuns == 3
\* number of I/O failures the environment injects in one behaviour
\* (sqlite3.Error on a read or a write, PermissionError on os.remove)
MaxFaults == 1

(***************************************************************************)
(* String and path functions.                                              *)
(***************************************************************************)
None == <<>>

\* str.startswith
StartsWith(s, prefix) ==
    /\ Len(prefix) <= Len(s)
    /\ SubSeq(s, 1, Len(prefix)) = prefix

\* os.path.join(a, b) for a relative b
Join(a, b) == a \o <<"/">> \o b

\* index of the last "/" of an absolute path
LastSlash(p) == CHOOSE i \in 1..Len(p) :
    /\ p[i] = "/"
    /\ \A j \in (i+1)..Len(p) : p[j] # "/"

\* Path(p).parent, os.path.dirname(p)
Parent(p) == IF LastSlash(p) = 1 THEN <<"/">> ELSE SubSeq(p, 1, LastSlash(p) - 1)

\* os.path.basename(p)
Basename(p) == SubSeq(p, LastSlash(p) + 1, Len(p))

\* whether Path(p).relative_to(base) succeeds: base is p or an ancestor
\* directory of p, compared component by component
IsRelativeTo(p, base) == p = base \/ StartsWith(p, base \o <<"/">>)

\* Path(p).relative_to(base), when it succeeds
RelativeTo(p, base) == IF p = base THEN <<".">> ELSE SubSeq(p, Len(base) + 2, Len(p))

\* the directories Path(d).mkdir(parents=True) makes sure exist: d and its ancestors
Ancestors(d) == {SubSeq(d, 1, i - 1) : i \in {j \in 2..Len(d) : d[j] = "/"}} \cup {d}

(***************************************************************************)
(* The installation: the command line arguments and the disks.             *)
(***************************************************************************)
\* the mergerfs mount point: the union view of the disks
mount_point == <<"/", "m">>
\* args.primary_path
primary_path == Join(mount_point, <<"p">>)
\* args.pool_root
pool_root == <<"/", "k">>
\* the entries of os.listdir(pool_root): two disks, one name a prefix of the other
DiskNames == {<<"d", "1">>, <<"d", "1", "0">>}
Disk1 == Join(pool_root, <<"d", "1">>)
Disk10 == Join(pool_root, <<"d", "1", "0">>)
Disks == {Join(pool_root, n) : n \in DiskNames}

\* logical paths, as the manifest and the state store name them
pa == Join(primary_path, <<"a">>)
pb == Join(primary_path, <<"b">>)
xa == Join(Join(mount_point, <<"x">>), <<"a">>)
ya == Join(Join(mount_point, <<"y">>), <<"a">>)
\* a file in a sibling directory whose name begins with the primary directory's
qa == Join(Join(mount_point, <<"p", "2">>), <<"a">>)
\* a file outside the mergerfs mount
za == <<"/", "z", "/", "a">>
\* a path a former manifest held, and no manifest of this model holds
ua == Join(Join(mount_point, <<"u">>), <<"a">>)

AllPaths == {pa, pb, xa, ya, qa, za, ua}

\* the path of a logical path relative to the mount point (p lies under it)
Rel(p) == RelativeTo(p, mount_point)
UnderMount(p) == StartsWith(p, mount_point \o <<"/">>)

\* every physical place of the model: each disk's copy of each relative
\* path, and the file outside the pool
PhysUniverse ==
    {Join(d, Rel(p)) : d \in Disks, p \in {q \in AllPaths : UnderMount(q)}} \cup {za}

\* the files at the start: physical path |-> inode number (0: no file)
InitFs == [f \in PhysUniverse |->
    CASE f = Join(Disk1, Rel(pa)) -> 1
      [] f = Join(Disk10, Rel(pb)) -> 2
      [] f = Join(Disk10, Rel(xa)) -> 3
      [] f = Join(Disk1, Rel(ya)) -> 4
      [] f = za -> 5
      [] f = Join(Disk1, Rel(qa)) -> 6
      [] OTHER -> 0]

InitDirs == UNION {Ancestors(Parent(f)) : f \in {g \in PhysUniverse : InitFs[g] # 0}}

\* the manifests of the model: data['matchSets'], each match set the list of
\* the filePath values of its 'files'
Manifests == {
    << <<pa, xa, ya>> >>,
    << <<xa, ya>>, <<pb, za>> >>,
    << <<pb, pa>>, <<pa, xa>> >>,
    << <<pa, xa>>, <<pb, xa>> >>,
    << <<pb, xa>>, <<pa, xa>> >>,
    << <<pa, xa, xa>> >>,
    << <<qa, ya>> >> }

Statuses == {"UNTRACKED", "PENDING", "DELETED", "LINKED"}

\* an empty processed_files table / dict
EmptyStore == [p \in AllPaths |-> "UNTRACKED"]

\* state stores a former run with another manifest can have left
InitStores == {EmptyStore,
               [EmptyStore EXCEPT ![ua] = "DELETED"],
               [EmptyStore EXCEPT ![ua] = "PENDING"]}

(***************************************************************************)
(* The filesystem: mergerfs shows under mount_point the union of the       *)
(* disks, and a file operation on a logical path acts on the disk copy.    *)
(***************************************************************************)
\* the physical places a logical path can stand for
PhysOf(p) == IF UnderMount(p) THEN {Join(d, Rel(p)) : d \in Disks} ELSE {p}

\* os.path.exists(p) for a file path of the model
Exists(files, p) == \E f \in PhysOf(p) \cap PhysUniverse : files[f] # 0

\* os.path.realpath(mergerfs_path): the physical path of the file the
\* logical path shows; a path that names no file resolves to itself
realpath(files, p) ==
    IF Exists(files, p)
    THEN CHOOSE f \in PhysOf(p) \cap PhysUniverse : files[f] # 0
    ELSE p

\* os.remove(p) on a file that exists
os_remove(files, p) == [f \in PhysUniverse |-> IF f \in PhysOf(p) THEN 0 ELSE files[f]]

\* the disk (device) a physical path is on; None outside the pool
DiskOf(f) ==
    IF \E d \in Disks : StartsWith(f, d \o <<"/">>)
    THEN CHOOSE d \in Disks : StartsWith(f, d \o <<"/">>)
    ELSE None

\* os.link(src, dst): the exception it raises, or "ok"
os_link_result(files, src, dst) ==
    IF src \notin PhysUniverse \/ files[src] = 0 THEN "FileNotFoundError"
    ELSE IF dst \in PhysUniverse /\ files[dst] # 0 THEN "FileExistsError"
    ELSE IF DiskOf(src) # DiskOf(dst) THEN "OSError"
    ELSE "ok"

\* os.link(src, dst) when it succeeds: dst is one more name of src's inode
os_link(files, src, dst) == [files EXCEPT ![dst] = files[src]]

\* the orders in which os.listdir(pool_root) can return the disks
ListdirOrders == {o \in [1..Cardinality(DiskNames) -> DiskNames] :
                    \A i, j \in DOMAIN o : i # j => o[i] # o[j]}

\* the loop of get_physical_path over the listing: the first entry whose
\* path is a string prefix of the physical path
RECURSIVE FirstDisk(_, _, _)
FirstDisk(order, i, physical_path) ==
    IF i > Len(order) THEN <<None, None>>
    ELSE LET disk_path == Join(pool_root, order[i])
         IN IF StartsWith(physical_path, disk_path)
            THEN <<physical_path, disk_path>>
            ELSE FirstDisk(order, i + 1, physical_path)

get_physical_path(files, mergerfs_path, order) ==
    FirstDisk(order, 1, realpath(files, mergerfs_path))

(***************************************************************************)
(* link_file's path arithmetic.                                            *)
(***************************************************************************)
mergerfs_base == Parent(primary_path)

\* Path(dup_file).parent.relative_to(mergerfs_base) raises ValueError
relative_to_raises(dup) == ~IsRelativeTo(Parent(dup), mergerfs_base)

\* link_target_dir with the directory built on the first disk of the pool
link_target_dir_first_disk(disk_root, dup) ==
    Join(Disk1, RelativeTo(Parent(dup), mergerfs_base))

link_target_dir(disk_root, dup) == Join(disk_root, RelativeTo(Parent(dup), mergerfs_base))

link_target_path(disk_root, dup) == Join(link_target_dir(disk_root, dup), Basename(dup))

(***************************************************************************)
(* The state store and the manifest index.                                 *)
(***************************************************************************)
\* update_state_db: INSERT OR REPLACE and commit; a sqlite3.Error is logged
\* inside the function and the caller sees a normal return either way
update_state_db(store, filepath, status, ok) ==
    IF ok THEN [store EXCEPT ![filepath] = status] ELSE store

\* load_processed_files: the table as a dict; an empty dict after a sqlite3.Error
load_processed_files(store, ok) == IF ok THEN store ELSE EmptyStore

\* the members of a match set, as a set
Members(files) == {files[i] : i \in 1..Len(files)}

\* key in file_to_set_map
InManifest(m, p) == \E g \in 1..Len(m) : p \in Members(m[g])

\* file_to_set_map[p]: the dict comprehension keeps the last set that holds p
file_to_set_map(m, p) == CHOOSE g \in 1..Len(m) :
    /\ p \in Members(m[g])
    /\ \A h \in (g+1)..Len(m) : p \notin Members(m[h])

\* the main loop's master: the first member whose path string starts with
\* primary_path; None when there is none
RECURSIVE FirstUnder(_, _)
FirstUnder(files, i) ==
    IF i > Len(files) THEN None
    ELSE IF StartsWith(files[i], primary_path) THEN files[i]
    ELSE FirstUnder(files, i + 1)

main_master(files) == FirstUnder(files, 1)

\* the recovery step's master: the generator calls f.startswith on the
\* first member f, a dict, which raises AttributeError; only an empty
\* member list gives the default None
recovery_master(files) ==
    IF Len(files) = 0 THEN [raised |-> FALSE, value |-> None]
    ELSE [raised |-> TRUE, value |-> None]

(***************************************************************************)
(* State.                                                                  *)
(***************************************************************************)
VARIABLES
    fs,                    \* the disks: physical path |-> inode number, 0 for no file
    dirs,                  \* the directories that exist
    db,                    \* table processed_files: filepath |-> status
    manifest,              \* data['matchSets'] of the manifest file
    pc,                    \* where the script is
    perform,               \* args.perform_actions
    conn,                  \* db_connection: "none", "open" or "closed"
    processed_files,       \* the dict run_deduplication holds
    recovery_needed,       \* the keys of recovery_needed not yet visited
    gi,                    \* index of match_set in match_sets
    di,                    \* index of dup_file in files
    master_file,
    master_physical_path,
    physical_disk_root,
    dup_file,
    handler,               \* the try block link_file runs in: "rec", "main" or "fnf"
    runs,                  \* runs started
    faults,                \* I/O failures injected
    muts,                  \* what this run changed on disk and in the table
    log,                   \* what this run logged
    start,                 \* fs, dirs and db when this run started
    prevDone,              \* the run before ran with --perform-actions to its end
    crashDup,              \* the duplicate whose DELETED was written when the run before was killed
    ckpt,                  \* the last checkpoint write of this run and whether it was stored
    precond,               \* the precondition this run found failing, or "ok"
    nomaster               \* the match sets this run's main loop left for having no master

vars == <<fs, dirs, db, manifest, pc, perform, conn, processed_files, recovery_needed,
          gi, di, master_file, master_physical_path, physical_disk_root, dup_file,
          handler, runs, faults, muts, log, start, prevDone, crashDup, ckpt, precond,
          nomaster>>

disk == <<fs, dirs, db>>
locals == <<gi, di, master_file, master_physical_path, physical_disk_root, dup_file, handler>>
history == <<start, prevDone, crashDup, precond>>

Stopped == {"idle", "done", "exit1", "crashed", "killed"}
Running == {"recovery", "main", "dups", "remove", "deleted", "link", "oslink", "linked"}
Preconds == {"manifest_missing", "manifest_malformed", "primary_missing", "pool_missing",
             "db_unopenable"}

NoCkpt == [status |-> "none", ok |-> TRUE]

\* the outcomes of one I/O call: TRUE for success, FALSE for an injected failure
Outcomes == {TRUE} \cup (IF faults < MaxFaults THEN {FALSE} ELSE {})

Init ==
    /\ fs = InitFs
    /\ dirs = InitDirs
    /\ db \in InitStores
    /\ manifest \in Manifests
    /\ pc = "idle"
    /\ perform = FALSE
    /\ conn = "none"
    /\ processed_files = EmptyStore
    /\ recovery_needed = {}
    /\ gi = 0 /\ di = 0
    /\ master_file = None /\ master_physical_path = None /\ physical_disk_root = None
    /\ dup_file = None
    /\ handler = "main"
    /\ runs = 0
    /\ faults = 0
    /\ muts = {}
    /\ log = {}
    /\ start = [fs |-> InitFs, dirs |-> InitDirs, db |-> db]
    /\ prevDone = FALSE
    /\ crashDup = None
    /\ ckpt = NoCkpt
    /\ precond = "ok"
    /\ nomaster = {}

\* the local variables of run_deduplication are gone when it is left
ClearLocals ==
    /\ gi' = 0 /\ di' = 0
    /\ master_file' = None /\ master_physical_path' = None /\ physical_disk_root' = None
    /\ dup_file' = None
    /\ handler' = "main"
    /\ processed_files' = EmptyStore
    /\ recovery_needed' = {}

\* what every start of the script does to the bookkeeping of the run
NewRun(flag) ==
    /\ pc \in Stopped
    /\ runs < MaxRuns
    /\ runs' = runs + 1
    /\ perform' = flag
    /\ muts' = {}
    /\ log' = {}
    /\ nomaster' = {}
    /\ ckpt' = NoCkpt
    /\ start' = [fs |-> fs, dirs |-> dirs, db |-> db]
    /\ prevDone' = (pc = "done" /\ perform)
    /\ crashDup' = IF pc = "killed" THEN crashDup ELSE None

(***************************************************************************)
(* __main__ and the head of run_deduplication.                             *)
(***************************************************************************)
\* a precondition check fails: sys.exit(1) before anything is opened
StartAbort(flag, why) ==
    /\ NewRun(flag)
    /\ precond' = why
    /\ pc' = "exit1"
    /\ conn' = "none"
    /\ ClearLocals
    /\ UNCHANGED <<disk, manifest, faults>>

\* the checks pass: the manifest is parsed, the state is loaded, the
\* connection is opened and the recovery step begins
StartRun(flag, ok) ==
    /\ NewRun(flag)
    /\ ok \in Outcomes
    /\ faults' = IF ok THEN faults ELSE faults + 1
    /\ precond' = IF ok THEN "ok" ELSE "db_unreadable"
    /\ LET loaded == load_processed_files(db, ok)
       IN /\ processed_files' = loaded
          /\ recovery_needed' = {k \in AllPaths : loaded[k] \in {"DELETED", "PENDING"}}
    /\ conn' = "open"
    /\ pc' = "recovery"
    /\ gi' = 0 /\ di' = 0
    /\ master_file' = None /\ master_physical_path' = None /\ physical_disk_root' = None
    /\ dup_file' = None
    /\ handler' = "main"
    /\ UNCHANGED <<disk, manifest>>

(***************************************************************************)
(* Exceptions: which handler of run_deduplication catches what link_file   *)
(* or os.remove raises, and where the script goes on.                      *)
(***************************************************************************)
Caught(h, exc) ==
    IF h = "main" /\ exc = "FileNotFoundError"
    THEN [pc |-> "link", handler |-> "fnf", tag |-> "fnf_warning"]
    ELSE IF h = "main"
    THEN [pc |-> "dups", handler |-> "main", tag |-> "failed"]
    ELSE IF h = "fnf"
    THEN [pc |-> "dups", handler |-> "main", tag |-> "failed_fnf"]
    ELSE [pc |-> "recovery", handler |-> "main", tag |-> "rec_failed"]

\* exc is raised while dup_file is handled under the current handler
Raise(exc) ==
    LET c == Caught(handler, exc)
    IN /\ pc' = c.pc
       /\ handler' = c.handler
       /\ log' = log \cup {<<c.tag, gi, dup_file>>}
       /\ di' = IF c.pc = "dups" THEN di + 1 ELSE di
       /\ UNCHANGED <<gi, master_file, master_physical_path, physical_disk_root, dup_file>>

\* link_file returns, or the handling of dup_file is over
NextFile ==
    /\ pc' = IF handler = "rec" THEN "recovery" ELSE "dups"
    /\ di' = IF handler = "rec" THEN di ELSE di + 1
    /\ handler' = "main"
    /\ UNCHANGED <<gi, master_file, master_physical_path, physical_disk_root, dup_file>>

(***************************************************************************)
(* The recovery step.                                                      *)
(***************************************************************************)
\* what one pass of the recovery loop comes to for dup
recovery_outcome(dup, order) ==
    IF ~InManifest(manifest, dup)
    THEN [pc |-> "recovery", tag |-> "unmapped", master |-> None, loc |-> <<None, None>>]
    ELSE LET m == recovery_master(manifest[file_to_set_map(manifest, dup)])
         IN IF m.raised
            THEN [pc |-> "crashed", tag |-> "traceback", master |-> None,
                  loc |-> <<None, None>>]
            ELSE IF m.value = None
            THEN [pc |-> "recovery", tag |-> "rec_no_master", master |-> None,
                  loc |-> <<None, None>>]
            ELSE LET loc == get_physical_path(fs, m.value, order)
                 IN IF loc[1] = None
                    THEN [pc |-> "recovery", tag |-> "rec_unresolved", master |-> m.value,
                          loc |-> loc]
                    ELSE IF perform
                    THEN [pc |-> "link", tag |-> "recovering", master |-> m.value,
                          loc |-> loc]
                    ELSE [pc |-> "recovery", tag |-> "rec_dry", master |-> m.value,
                          loc |-> loc]

\* RecoverStep with an entry the manifest does not hold taken out of the table
RecoverStepPrunes(dup, order) ==
    /\ pc = "recovery"
    /\ dup \in recovery_needed
    /\ LET r == recovery_outcome(dup, order)
       IN /\ pc' = r.pc
          /\ log' = log \cup {<<r.tag, 0, dup>>}
          /\ db' = IF r.tag = "unmapped" THEN [db EXCEPT ![dup] = "UNTRACKED"] ELSE db
          /\ IF r.pc = "crashed"
             THEN /\ conn' = "closed"
                  /\ ClearLocals
             ELSE /\ recovery_needed' = recovery_needed \ {dup}
                  /\ dup_file' = dup
                  /\ master_file' = r.master
                  /\ master_physical_path' = r.loc[1]
                  /\ physical_disk_root' = r.loc[2]
                  /\ handler' = IF r.pc = "link" THEN "rec" ELSE "main"
                  /\ UNCHANGED <<conn, processed_files, gi, di>>
    /\ UNCHANGED <<fs, dirs, manifest, perform, runs, faults, muts, history, ckpt, nomaster>>

\* RecoverStep without the finally clause: the connection stays open when
\* the exception leaves run_deduplication
RecoverStepLeaks(dup, order) ==
    /\ pc = "recovery"
    /\ dup \in recovery_needed
    /\ LET r == recovery_outcome(dup, order)
       IN /\ pc' = r.pc
          /\ log' = log \cup {<<r.tag, 0, dup>>}
          /\ IF r.pc = "crashed"
             THEN /\ conn' = conn
                  /\ ClearLocals
             ELSE /\ recovery_needed' = recovery_needed \ {dup}
                  /\ dup_file' = dup
                  /\ master_file' = r.master
                  /\ master_physical_path' = r.loc[1]
                  /\ physical_disk_root' = r.loc[2]
                  /\ handler' = IF r.pc = "link" THEN "rec" ELSE "main"
                  /\ UNCHANGED <<conn, processed_files, gi, di>>
    /\ UNCHANGED <<disk, manifest, perform, runs, faults, muts, history, ckpt, nomaster>>

\* one pass of `for dup_file in recovery_needed.keys()`; an exception that
\* no handler of the loop catches leaves run_deduplication through finally
RecoverStep(dup, order) ==
    /\ pc = "recovery"
    /\ dup \in recovery_needed
    /\ LET r == recovery_outcome(dup, order)
       IN /\ pc' = r.pc
          /\ log' = log \cup {<<r.tag, 0, dup>>}
          /\ IF r.pc = "crashed"
             THEN /\ conn' = "closed"
                  /\ ClearLocals
             ELSE /\ recovery_needed' = recovery_needed \ {dup}
                  /\ dup_file' = dup
                  /\ master_file' = r.master
                  /\ master_physical_path' = r.loc[1]
                  /\ physical_disk_root' = r.loc[2]
                  /\ handler' = IF r.pc = "link" THEN "rec" ELSE "main"
                  /\ UNCHANGED <<conn, processed_files, gi, di>>
    /\ UNCHANGED <<disk, manifest, perform, runs, faults, muts, history, ckpt, nomaster>>

\* the recovery loop is over: processed_files is read again
Refresh(ok) ==
    /\ pc = "recovery"
    /\ recovery_needed = {}
    /\ ok \in Outcomes
    /\ faults' = IF ok THEN faults ELSE faults + 1
    /\ processed_files' = load_processed_files(db, ok)
    /\ precond' = IF ok THEN precond ELSE "db_unreadable"
    /\ pc' = "main"
    /\ gi' = 1
    /\ UNCHANGED <<disk, manifest, perform, conn, recovery_needed, di, master_file,
                   master_physical_path, physical_disk_root, dup_file, handler, runs,
                   muts, log, start, prevDone, crashDup, ckpt, nomaster>>

(***************************************************************************)
(* The main processing loop.                                               *)
(***************************************************************************)
\* a match set with no member under primary_path: continue
SkipNoMaster ==
    /\ pc = "main"
    /\ gi <= Len(manifest)
    /\ main_master(manifest[gi]) = None
    /\ gi' = gi + 1
    /\ nomaster' = nomaster \cup {gi}
    /\ UNCHANGED <<disk, manifest, pc, perform, conn, processed_files, recovery_needed,
                   di, master_file, master_physical_path, physical_disk_root, dup_file,
                   handler, runs, faults, muts, log, history, ckpt>>

\* the master resolves to no disk: the set is skipped with an error
SkipUnresolved(order) ==
    /\ pc = "main"
    /\ gi <= Len(manifest)
    /\ main_master(manifest[gi]) # None
    /\ get_physical_path(fs, main_master(manifest[gi]), order)[1] = None
    /\ log' = log \cup {<<"unresolved_master", gi, main_master(manifest[gi])>>}
    /\ gi' = gi + 1
    /\ UNCHANGED <<disk, manifest, pc, perform, conn, processed_files, recovery_needed,
                   di, master_file, master_physical_path, physical_disk_root, dup_file,
                   handler, runs, faults, muts, history, ckpt, nomaster>>

\* the master resolves: the loop over the files of the set begins
EnterSet(order) ==
    /\ pc = "main"
    /\ gi <= Len(manifest)
    /\ main_master(manifest[gi]) # None
    /\ LET loc == get_physical_path(fs, main_master(manifest[gi]), order)
       IN /\ loc[1] # None
          /\ master_physical_path' = loc[1]
          /\ physical_disk_root' = loc[2]
    /\ master_file' = main_master(manifest[gi])
    /\ di' = 1
    /\ pc' = "dups"
    /\ UNCHANGED <<disk, manifest, perform, conn, processed_files, recovery_needed, gi,
                   dup_file, handler, runs, faults, muts, log, history, ckpt, nomaster>>

\* the files of the set are done
NextSet ==
    /\ pc = "dups"
    /\ di > Len(manifest[gi])
    /\ gi' = gi + 1
    /\ di' = 0
    /\ pc' = "main"
    /\ master_file' = None /\ master_physical_path' = None /\ physical_disk_root' = None
    /\ dup_file' = None
    /\ UNCHANGED <<disk, manifest, perform, conn, processed_files, recovery_needed,
                   handler, runs, faults, muts, log, history, ckpt, nomaster>>

\* the per-file check of the main loop
Skipped(file) == file = master_file \/ processed_files[file] = "LINKED"

\* the master itself, or a file the dict holds as LINKED: continue
SkipFile ==
    /\ pc = "dups"
    /\ di <= Len(manifest[gi])
    /\ Skipped(manifest[gi][di])
    /\ di' = di + 1
    /\ UNCHANGED <<disk, manifest, pc, perform, conn, processed_files, recovery_needed,
                   gi, master_file, master_physical_path, physical_disk_root, dup_file,
                   handler, runs, faults, muts, log, history, ckpt, nomaster>>

\* MainDryRun with the PENDING checkpoint written before the mode is looked at
MainDryRunWrites ==
    /\ pc = "dups"
    /\ di <= Len(manifest[gi])
    /\ ~Skipped(manifest[gi][di])
    /\ ~perform
    /\ log' = log \cup {<<"would_delete", gi, manifest[gi][di]>>}
    /\ db' = update_state_db(db, manifest[gi][di], "PENDING", TRUE)
    /\ di' = di + 1
    /\ UNCHANGED <<fs, dirs, manifest, pc, perform, conn, processed_files, recovery_needed,
                   gi, master_file, master_physical_path, physical_disk_root, dup_file,
                   handler, runs, faults, muts, history, ckpt, nomaster>>

\* without --perform-actions: two log lines
MainDryRun ==
    /\ pc = "dups"
    /\ di <= Len(manifest[gi])
    /\ ~Skipped(manifest[gi][di])
    /\ ~perform
    /\ log' = log \cup {<<"would_delete", gi, manifest[gi][di]>>}
    /\ di' = di + 1
    /\ UNCHANGED <<disk, manifest, pc, perform, conn, processed_files, recovery_needed,
                   gi, master_file, master_physical_path, physical_disk_root, dup_file,
                   handler, runs, faults, muts, history, ckpt, nomaster>>

\* update_state_db(db_connection, dup_file, 'PENDING')
WritePending(ok) ==
    /\ pc = "dups"
    /\ di <= Len(manifest[gi])
    /\ ~Skipped(manifest[gi][di])
    /\ perform
    /\ ok \in Outcomes
    /\ faults' = IF ok THEN faults ELSE faults + 1
    /\ dup_file' = manifest[gi][di]
    /\ db' = update_state_db(db, manifest[gi][di], "PENDING", ok)
    /\ muts' = IF ok THEN muts \cup {<<"upsert", manifest[gi][di], "PENDING">>} ELSE muts
    /\ ckpt' = [status |-> "PENDING", ok |-> ok]
    /\ handler' = "main"
    /\ pc' = "remove"
    /\ UNCHANGED <<fs, dirs, manifest, perform, conn, processed_files, recovery_needed,
                   gi, di, master_file, master_physical_path, physical_disk_root, runs,
                   log, history, nomaster>>

\* os.remove(dup_file)
RemoveFile(ok) ==
    /\ pc = "remove"
    /\ ok \in Outcomes
    /\ IF ~Exists(fs, dup_file)
       THEN /\ ok
            /\ Raise("FileNotFoundError")
            /\ UNCHANGED <<fs, muts, faults>>
       ELSE IF ok
       THEN /\ fs' = os_remove(fs, dup_file)
            /\ muts' = muts \cup {<<"remove", dup_file>>}
            /\ pc' = "deleted"
            /\ UNCHANGED <<faults, log, locals>>
       ELSE /\ Raise("PermissionError")
            /\ faults' = faults + 1
            /\ UNCHANGED <<fs, muts>>
    /\ UNCHANGED <<dirs, db, manifest, perform, conn, processed_files, recovery_needed,
                   runs, history, ckpt, nomaster>>

\* update_state_db(db_connection, dup_file, 'DELETED')
WriteDeleted(ok) ==
    /\ pc = "deleted"
    /\ ok \in Outcomes
    /\ faults' = IF ok THEN faults ELSE faults + 1
    /\ db' = update_state_db(db, dup_file, "DELETED", ok)
    /\ muts' = IF ok THEN muts \cup {<<"upsert", dup_file, "DELETED">>} ELSE muts
    /\ ckpt' = [status |-> "DELETED", ok |-> ok]
    /\ pc' = "link"
    /\ UNCHANGED <<fs, dirs, manifest, perform, conn, processed_files, recovery_needed,
                   locals, runs, log, history, nomaster>>

(***************************************************************************)
(* link_file.                                                              *)
(***************************************************************************)
\* the path arithmetic and Path(link_target_dir).mkdir(parents=True, exist_ok=True)
LinkMkdir ==
    /\ pc = "link"
    /\ IF relative_to_raises(dup_file)
       THEN /\ Raise("ValueError")
            /\ UNCHANGED <<dirs, muts>>
       ELSE LET made == Ancestors(link_target_dir(physical_disk_root, dup_file))
            IN /\ dirs' = dirs \cup made
               /\ muts' = muts \cup {<<"mkdir", d>> : d \in made \ dirs}
               /\ pc' = "oslink"
               /\ UNCHANGED <<log, locals>>
    /\ UNCHANGED <<fs, db, manifest, perform, conn, processed_files, recovery_needed,
                   runs, faults, history, ckpt, nomaster>>

\* LinkCreate with LINKED written before os.link is called
LinkCreateRecordsFirst ==
    /\ pc = "oslink"
    /\ db' = update_state_db(db, dup_file, "LINKED", TRUE)
    /\ LET target == link_target_path(physical_disk_root, dup_file)
           res == os_link_result(fs, master_physical_path, target)
       IN IF res = "ok"
          THEN /\ fs' = os_link(fs, master_physical_path, target)
               /\ muts' = muts \cup {<<"link", target>>}
               /\ pc' = "linked"
               /\ UNCHANGED <<log, locals>>
          ELSE /\ Raise(res)
               /\ UNCHANGED <<fs, muts>>
    /\ UNCHANGED <<dirs, manifest, perform, conn, processed_files, recovery_needed,
                   runs, faults, history, ckpt, nomaster>>

\* os.link(master_physical_path, link_target_path)
LinkCreate ==
    /\ pc = "oslink"
    /\ LET target == link_target_path(physical_disk_root, dup_file)
           res == os_link_result(fs, master_physical_path, target)
       IN IF res = "ok"
          THEN /\ fs' = os_link(fs, master_physical_path, target)
               /\ muts' = muts \cup {<<"link", target>>}
               /\ pc' = "linked"
               /\ UNCHANGED <<log, locals>>
          ELSE /\ Raise(res)
               /\ UNCHANGED <<fs, muts>>
    /\ UNCHANGED <<dirs, db, manifest, perform, conn, processed_files, recovery_needed,
                   runs, faults, history, ckpt, nomaster>>

\* update_state_db(db_connection, dup_file, 'LINKED') and the success line
WriteLinked(ok) ==
    /\ pc = "linked"
    /\ ok \in Outcomes
    /\ faults' = IF ok THEN faults ELSE faults + 1
    /\ db' = update_state_db(db, dup_file, "LINKED", ok)
    /\ muts' = IF ok THEN muts \cup {<<"upsert", dup_file, "LINKED">>} ELSE muts
    /\ ckpt' = [status |-> "LINKED", ok |-> ok]
    /\ log' = log \cup {<<"success", gi, dup_file>>}
    /\ NextFile
    /\ UNCHANGED <<fs, dirs, manifest, perform, conn, processed_files, recovery_needed,
                   runs, history, nomaster>>

(***************************************************************************)
(* The end of a run.                                                       *)
(***************************************************************************)
\* the main loop is over: finally closes the connection, exit status 0
Finish ==
    /\ pc = "main"
    /\ gi > Len(manifest)
    /\ pc' = "done"
    /\ conn' = "closed"
    /\ ClearLocals
    /\ UNCHANGED <<disk, manifest, perform, runs, faults, muts, log, history, ckpt,
                   nomaster>>

\* the process is killed; the operating system drops the connection
Kill ==
    /\ pc \in Running
    /\ pc' = "killed"
    /\ conn' = "closed"
    /\ crashDup' = IF pc = "link" /\ handler = "main" /\ ckpt = [status |-> "DELETED", ok |-> TRUE]
                   THEN dup_file ELSE None
    /\ ClearLocals
    /\ UNCHANGED <<disk, manifest, perform, runs, faults, muts, log, start, prevDone,
                   precond, ckpt, nomaster>>

Next ==
    \/ \E flag \in BOOLEAN, why \in Preconds : StartAbort(flag, why)
    \/ \E flag \in BOOLEAN, ok \in BOOLEAN : StartRun(flag, ok)
    \/ \E dup \in AllPaths, order \in ListdirOrders : RecoverStep(dup, order)
    \/ \E ok \in BOOLEAN : Refresh(ok)
    \/ SkipNoMaster
    \/ \E order \in ListdirOrders : SkipUnresolved(order)
    \/ \E order \in ListdirOrders : EnterSet(order)
    \/ NextSet
    \/ SkipFile
    \/ MainDryRun
    \/ \E ok \in BOOLEAN : WritePending(ok)
    \/ \E ok \in BOOLEAN : RemoveFile(ok)
    \/ \E ok \in BOOLEAN : WriteDeleted(ok)
    \/ LinkMkdir
    \/ LinkCreate
    \/ \E ok \in BOOLEAN : WriteLinked(ok)
    \/ Finish
    \/ Kill

Spec == Init /\ [][Next]_vars

(***************************************************************************)
(* Definitions the properties share.                                       *)
(***************************************************************************)
\* the paths the manifest names
ManifestPaths == UNION {Members(manifest[g]) : g \in 1..Len(manifest)}

\* the inode a logical path shows, 0 when it shows no file
InodeAt(p) == IF Exists(fs, p) THEN fs[realpath(fs, p)] ELSE 0

\* p shows a file that is a hardlink of the master of one of p's match sets
LinkedToMaster(p) ==
    \E g \in 1..Len(manifest) :
        /\ p \in Members(manifest[g])
        /\ main_master(manifest[g]) # None
        /\ InodeAt(p) # 0
        /\ InodeAt(p) = InodeAt(main_master(manifest[g]))

\* a run of run_deduplication has come to its end by itself
Ended == pc \in {"done", "crashed"}

Rank(status) ==
    CASE status = "UNTRACKED" -> 0
      [] status = "PENDING" -> 1
      [] status = "DELETED" -> 2
      [] status = "LINKED" -> 3

(***************************************************************************)
(* C1. Crash safety: when a run with --perform-actions is killed right     *)
(* after DELETED was stored for a duplicate and before LINKED was, the     *)
(* next run with --perform-actions ends normally with the duplicate LINKED *)
(* and a hardlink to the master at the duplicate's path. Stated for the    *)
(* runs in which no I/O call fails.                                        *)
(***************************************************************************)
CrashSafety ==
    (Ended /\ perform /\ crashDup # None /\ faults = 0)
        => /\ pc = "done"
           /\ db[crashDup] = "LINKED"
           /\ LinkedToMaster(crashDup)

(***************************************************************************)
(* C2. No silent data loss: in every state, every path of the manifest     *)
(* either shows its file or has a PENDING, DELETED or LINKED entry in the  *)
(* state store.                                                            *)
(***************************************************************************)
NoSilentDataLoss ==
    \A p \in ManifestPaths :
        Exists(fs, p) \/ db[p] \in {"PENDING", "DELETED", "LINKED"}

(***************************************************************************)
(* C3. A failed checkpoint write stops the duplicate: the file is not      *)
(* removed after a PENDING write that failed, and no directory or link is  *)
(* made after a DELETED write that failed.                                 *)
(***************************************************************************)
DurabilityFailureSurfaced ==
    /\ (pc = "deleted" => ckpt.ok)
    /\ (pc \in {"oslink", "linked"} /\ ckpt.status = "DELETED" => ckpt.ok)

(***************************************************************************)
(* C4. Idempotence: a run with --perform-actions that follows a run with   *)
(* --perform-actions that came to its end changes nothing: the files and   *)
(* directories are as the first run left them and the second run made no   *)
(* delete, link, directory or state-store write.                           *)
(***************************************************************************)
Idempotence ==
    (Ended /\ perform /\ prevDone)
        => /\ fs = start.fs
           /\ dirs = start.dirs
           /\ muts = {}

(***************************************************************************)
(* C5. Master immutability: the file of the master of every match set      *)
(* stays where it was, with the inode it had. Stated for the runs in which *)
(* no I/O call fails.                                                      *)
(***************************************************************************)
MasterImmutable ==
    \A g \in 1..Len(manifest) :
        LET m == main_master(manifest[g])
        IN (m # None /\ faults = 0) =>
            \A f \in PhysOf(m) \cap PhysUniverse : InitFs[f] # 0 => fs[f] = InitFs[f]

(***************************************************************************)
(* C6. Group without master: for every match set the main loop left for    *)
(* having no member under the primary path, the run logged a skip for that *)
(* set, and the run changed nothing for it. Stated for the runs in which   *)
(* no I/O call fails.                                                      *)
(***************************************************************************)
NoMasterLoggedSkip ==
    \A g \in nomaster : faults = 0 =>
        /\ \E e \in log : e[2] = g
        /\ \A p \in Members(manifest[g]) :
              (\A h \in 1..Len(manifest) : h # g => p \notin Members(manifest[h]))
                  => /\ db[p] = start.db[p]
                     /\ \A f \in PhysOf(p) \cap PhysUniverse : fs[f] = start.fs[f]

(***************************************************************************)
(* C7. Dry run: a run without --perform-actions leaves the files, the      *)
(* directories and the state store as they were when it started, at every  *)
(* point of the run.                                                       *)
(***************************************************************************)
DryRunNoMutation ==
    (runs > 0 /\ ~perform)
        => /\ fs = start.fs
           /\ dirs = start.dirs
           /\ db = start.db
           /\ muts = {}

DryRunWitness ==
    /\ pc = "done"
    /\ ~perform
    /\ \E e \in log : e[1] = "would_delete"

(***************************************************************************)
(* C8. Failure containment: a run whose preconditions hold and that is not *)
(* killed ends with exit status 0, whatever fails for one file or one set. *)
(* Stated for the runs in which no I/O call fails, where what fails is the *)
(* handling of an entry of the recovery step or of a file of the main loop.*)
(***************************************************************************)
FailureContainment ==
    (runs > 0 /\ pc \in Stopped \ {"killed"} /\ precond = "ok" /\ faults = 0)
        => pc = "done"

(***************************************************************************)
(* C9. Fatal preconditions: a run that finds the manifest missing or       *)
(* malformed, a root missing or the state store not to be opened or read   *)
(* changes nothing and does not end with exit status 0.                    *)
(***************************************************************************)
FatalPreconditionsAbort ==
    precond # "ok" => (muts = {} /\ pc # "done")

(***************************************************************************)
(* C10. Status monotonicity: every change of the stored status of a path   *)
(* goes forward in UNTRACKED, PENDING, DELETED, LINKED. Stated for the     *)
(* runs in which no I/O call fails.                                        *)
(***************************************************************************)
StatusMonotonic ==
    [][faults' = 0 => \A p \in AllPaths : Rank(db'[p]) >= Rank(db[p])]_vars

(***************************************************************************)
(* C11. LINKED is absorbing: once the state store holds LINKED for a path, *)
(* no step writes another status for the path, removes the file the path   *)
(* shows or makes a link for it. Stated for the runs in which no I/O call  *)
(* fails.                                                                  *)
(***************************************************************************)
LinkedAbsorbing ==
    [][\A p \in AllPaths :
          (db[p] = "LINKED" /\ faults' = 0)
              => /\ db'[p] = "LINKED"
                 /\ \A f \in PhysOf(p) \cap PhysUniverse : fs'[f] = fs[f]]_vars

(***************************************************************************)
(* C12. The DELETED checkpoint precedes the link step: whenever the main   *)
(* loop is in link_file for a duplicate, also after a delete that found    *)
(* the file absent, the state store holds DELETED for the duplicate.       *)
(* Stated for the runs in which no I/O call fails.                         *)
(***************************************************************************)
DeletedBeforeLink ==
    (pc \in {"link", "oslink", "linked"} /\ handler \in {"main", "fnf"} /\ faults = 0)
        => db[dup_file] = "DELETED"

(***************************************************************************)
(* C13. Recovery of a PENDING entry: when a run with --perform-actions     *)
(* that found a PENDING entry for a path of the manifest whose set has a   *)
(* master that resolves is past its recovery step, the file the path       *)
(* showed has been removed and the link step has been taken for the path.  *)
(* Stated for the runs in which no I/O call fails.                         *)
(***************************************************************************)
PendingRecovered ==
    \A p \in ManifestPaths :
        (/\ perform
         /\ pc \in {"main", "dups", "done", "crashed"}
         /\ faults = 0
         /\ start.db[p] = "PENDING"
         /\ \E g \in 1..Len(manifest), o \in ListdirOrders :
               /\ p \in Members(manifest[g])
               /\ main_master(manifest[g]) \notin {None, p}
               /\ get_physical_path(start.fs, main_master(manifest[g]), o)[1] # None)
            => /\ Exists(start.fs, p) => <<"remove", p>> \in muts
               /\ \E e \in log : e[3] = p /\ e[1] \in {"success", "rec_failed"}

(***************************************************************************)
(* C14. Unmapped recovery entry: a PENDING or DELETED entry of the state   *)
(* store whose path the manifest does not hold keeps its status through    *)
(* the whole run, nothing is done on the disks for the path, and no        *)
(* exception that ends the run comes from such an entry.                   *)
(***************************************************************************)
UnmappedUntouched ==
    \A p \in AllPaths :
        (runs > 0 /\ ~InManifest(manifest, p) /\ start.db[p] \in {"PENDING", "DELETED"})
            => /\ db[p] = start.db[p]
               /\ \A f \in PhysOf(p) \cap PhysUniverse : fs[f] = start.fs[f]
               /\ \A mu \in muts : mu[2] # p
               /\ \A e \in log : e[3] = p => e[1] = "unmapped"

UnmappedWitness ==
    /\ pc = "done"
    /\ perform
    /\ <<"unmapped", 0, ua>> \in log
    /\ db[ua] = "DELETED"
    /\ \E e \in log : e[1] = "success"

(***************************************************************************)
(* C15. Master selection: the master the main loop holds lies inside the   *)
(* primary directory, and is the first member of its set that does.        *)
(***************************************************************************)
MasterUnderRoot ==
    (pc \in {"dups", "remove", "deleted", "link", "oslink", "linked"} /\ handler # "rec")
        => /\ IsRelativeTo(master_file, primary_path)
           /\ \E i \in 1..Len(manifest[gi]) :
                 /\ manifest[gi][i] = master_file
                 /\ \A j \in 1..(i-1) : ~IsRelativeTo(manifest[gi][j], primary_path)

(***************************************************************************)
(* C16. Resolver result: the disk root get_physical_path returned for the  *)
(* master is a directory directly under the pool root that holds the       *)
(* physical path it returned, whatever the order of the directory listing. *)
(***************************************************************************)
ResolverResult ==
    master_physical_path # None
        => /\ physical_disk_root \in Disks
           /\ IsRelativeTo(master_physical_path, physical_disk_root)

(***************************************************************************)
(* C17. LINKED means linked in place: whenever the state store holds       *)
(* LINKED for a path of the manifest, the physical path where the file of  *)
(* that path was before the script touched it holds a hardlink of the      *)
(* master. Stated for the runs in which no I/O call fails.                 *)
(***************************************************************************)
LinkedInPlace ==
    \A p \in ManifestPaths :
        (db[p] = "LINKED" /\ faults = 0)
            => /\ fs[realpath(InitFs, p)] # 0
               /\ \E g \in 1..Len(manifest) :
                     /\ p \in Members(manifest[g])
                     /\ main_master(manifest[g]) # None
                     /\ fs[realpath(InitFs, p)] = InodeAt(main_master(manifest[g]))

(***************************************************************************)
(* C18. LINKED is recorded only on link success: a step that turns the     *)
(* status of a path into LINKED is the step right after os.link returned   *)
(* for that path, with the link in place as one more name of the master's  *)
(* file; a step in which link_file raises leaves the state store as it     *)
(* was.                                                                    *)
(***************************************************************************)
LinkedOnlyOnSuccess ==
    [][/\ \A p \in AllPaths :
             (db'[p] = "LINKED" /\ db[p] # "LINKED")
                 => /\ pc = "linked"
                    /\ p = dup_file
                    /\ fs[link_target_path(physical_disk_root, p)] # 0
                    /\ fs[link_target_path(physical_disk_root, p)] = fs[master_physical_path]
       /\ (pc \in {"link", "oslink"} /\ pc' \in {"dups", "recovery"}) => db' = db]_vars

LinkedOnlyOnSuccessWitness ==
    /\ pc = "done"
    /\ faults = 0
    /\ \E p, q \in ManifestPaths :
          /\ db[p] = "LINKED"
          /\ \E e \in log : e[1] = "success" /\ e[3] = p
          /\ db[q] = "DELETED"
          /\ \E e \in log : e[1] = "failed" /\ e[3] = q

(***************************************************************************)
(* C19. The connection run_deduplication opened is open while the run is   *)
(* inside the try block and closed once run_deduplication is left, by the  *)
(* end of the main loop or by an exception of the recovery step.           *)
(***************************************************************************)
ConnReleased ==
    /\ pc \in Running => conn = "open"
    /\ pc \in {"done", "crashed"} => conn = "closed"

ConnReleasedWitness ==
    /\ pc = "crashed"
    /\ conn = "closed"
    /\ \E e \in log : e[1] = "traceback"

(***************************************************************************)
(* C20. Every file the program creates is a link to the master's file at   *)
(* the disk root get_physical_path returned for the master, joined with    *)
(* the duplicate's directory relative to the parent of the primary path,   *)
(* and is on the disk of the master's file; every directory it creates is  *)
(* that directory or one above it, under that disk root.                   *)
(***************************************************************************)
LinkUnderMasterRoot ==
    [][LET dir == Join(physical_disk_root,
                       RelativeTo(Parent(dup_file), Parent(primary_path)))
       IN /\ \A f \in PhysUniverse :
                (fs'[f] # 0 /\ fs[f] = 0)
                    => /\ f = Join(dir, Basename(dup_file))
                       /\ IsRelativeTo(f, physical_disk_root)
                       /\ DiskOf(f) = DiskOf(master_physical_path)
                       /\ fs'[f] = fs[master_physical_path]
          /\ \A d \in dirs' \ dirs :
                /\ d \in Ancestors(dir)
                /\ IsRelativeTo(d, physical_disk_root)]_vars

LinkUnderMasterRootWitness ==
    /\ pc = "linked"
    /\ physical_disk_root = Disk10
    /\ dirs # InitDirs
    /\ fs[Join(Disk10, Rel(dup_file))] # 0
    /\ fs[Join(Disk10, Rel(dup_file))] = fs[master_physical_path]

====
